---- MODULE Spec2Model ----
(***************************************************************************)
(* Orchestrator / relayer side of the gravity (peggy) bridge.              *)
(*                                                                         *)
(*   - check_for_events   (orchestrator/src/ethereum_event_watcher.rs)     *)
(*   - get_block_delay    (orchestrator/src/ethereum_event_watcher.rs)     *)
(*   - send_eth_valset_update (ethereum_peggy/src/valset_update.rs)        *)
(*   - relay_batches      (relayer/src/batch_relaying.rs)                  *)
(*                                                                         *)
(* The three loops share no mutable state, so each has a specification of  *)
(* its own over its own variables; the variables of the other loops stay   *)
(* at their initial value.                                                 *)
(***************************************************************************)
EXTENDS Integers, Sequences, FiniteSets, TLC

(***************************************************************************)
(* Bounds of the model.                                                    *)
(***************************************************************************)
\* number of nonce-bearing bridge events the EVM contract has emitted
MaxEvents == 2
\* highest block in which the contract emitted an event; the EVM node reports
\* latest blocks up to this many blocks past its block delay
MaxEventBlock == 1
\* highest net id the block-delay table is evaluated on
MaxNetId == 2020
\* highest valset nonce
MaxValsetNonce == 2
\* highest batch nonce
MaxBatchNonce == 2
\* most batches the native chain returns in one query
MaxBatches == 2
\* failed attempts that a retried read is followed through
MaxRetries == 1

(***************************************************************************)
(* Event kinds.  Four kinds carry an event_nonce as the last uint256 of    *)
(* their signature; ValsetUpdatedEvent(uint256,address[],uint256[])        *)
(* carries the valset nonce only.                                          *)
(***************************************************************************)
ClaimKinds == {"SendToCosmos", "BatchExecuted", "ERC20Deployed", "LogicCallExecuted"}
EventKinds == ClaimKinds \cup {"ValsetUpdated"}

NoBlock == 0 - 1
NoNonce == 0 - 1

VARIABLES
    \* ---- environment of the event watcher
    evm_log,          \* nonce-bearing events emitted by the bridge contract, in emission order
    valset_log,       \* ValsetUpdated events emitted by the bridge contract
    net_version,      \* net id of the EVM node
    cosmos_nonce,     \* native chain: last_event_nonce of this validator
    \* ---- caller of check_for_events
    starting_block,   \* checkpoint block kept by the calling loop
    \* ---- one invocation of check_for_events
    wpc,              \* position inside check_for_events
    retries,          \* failed attempts of the retried read the invocation is in
    head,             \* block number read from the node
    latest_block,     \* head - block delay: upper end of the scanned range
    queries,          \* per event kind: the result of the log query
    parsed,           \* per event kind: the decoded events
    last_event_nonce, \* nonce read from the native chain before filtering
    claims,           \* per claim kind: events left after filter_by_event_nonce
    sent,             \* claims transactions submitted by this invocation
    txhash,           \* hash in the response of send_ethereum_claims
    new_event_nonce,  \* nonce read from the native chain after submission
    wresult,          \* what the invocation returned
    \* ---- get_block_delay on its own
    dnet,             \* net id handed to get_block_delay
    ddelay,           \* value it returned
    \* ---- the EVM bridge contract, valset side
    eth_valset_nonce, \* valset nonce stored in the contract
    txstatus,         \* per relayer instance: fate of the transaction it broadcast
    \* ---- one invocation of send_eth_valset_update per relayer instance
    vpc,              \* position inside send_eth_valset_update
    vin,              \* arguments: new_valset, old_valset, confirms
    before_nonce,     \* contract nonce read before the broadcast
    vtx,              \* EVM transactions broadcast by the invocation
    last_nonce,       \* contract nonce read after the receipt
    vresult,          \* what the invocation returned
    \* ---- the EVM bridge contract, batch side
    eth_batch_nonce,  \* per token: nonce of the last batch the contract executed
    \* ---- one invocation of relay_batches
    bpc,              \* position inside relay_batches
    latest_batches,   \* batches returned by the native chain
    bi,               \* index of the next batch the loop looks at
    bsigs,            \* per batch looked at: the result of the confirmations query
    oldest_signed_batch, \* Option<TransactionBatch>
    oldest_signatures,   \* Option<Vec<BatchConfirmResponse>>
    latest_ethereum_batch, \* result of get_tx_batch_nonce
    bcalls            \* EVM calls the invocation has made, in order

wenv   == <<evm_log, valset_log, net_version>>
wlocal == <<retries, head, latest_block, queries, parsed, last_event_nonce, claims, sent,
            txhash, new_event_nonce, wresult>>
wvars  == <<evm_log, valset_log, net_version, cosmos_nonce, starting_block, wpc,
            retries, head, latest_block, queries, parsed, last_event_nonce, claims, sent,
            txhash, new_event_nonce, wresult>>
dvars  == <<dnet, ddelay>>
vvars  == <<eth_valset_nonce, txstatus, vpc, vin, before_nonce, vtx, last_nonce, vresult>>
bvars  == <<eth_batch_nonce, bpc, latest_batches, bi, bsigs, oldest_signed_batch,
           oldest_signatures, latest_ethereum_batch, bcalls>>
vars   == <<wvars, dvars, vvars, bvars>>

(***************************************************************************)
(* get_block_delay: the match on the net version.                          *)
(***************************************************************************)
get_block_delay_DefaultZero(nv) ==
    IF nv \in {1, 3, 7} THEN 6 ELSE 0

get_block_delay(nv) ==
    IF nv \in {1, 3, 7} THEN 6
    ELSE IF nv \in {4, 5, 2018, 15, 6} THEN 0
    ELSE 6

(***************************************************************************)
(* The EVM side: the logs the bridge contract has emitted.  The contract   *)
(* numbers its nonce-bearing events 1, 2, ... in emission order, so block  *)
(* heights never decrease along the log.  A raw log carries its signature  *)
(* (kind), its block and the last uint256 of its data.                     *)
(***************************************************************************)
BlockSeqs(n) ==
    {b \in [1..n -> 0..MaxEventBlock] : \A i \in 1..n : \A j \in 1..n : i <= j => b[i] <= b[j]}

EventLogs ==
    UNION {{[i \in 1..n |-> [kind |-> k[i], data |-> i, block |-> b[i]]] :
               k \in [1..n -> ClaimKinds], b \in BlockSeqs(n)} : n \in 0..MaxEvents}

ValsetLogs ==
    {<<>>, <<[kind |-> "ValsetUpdated", data |-> 1, block |-> 0]>>}

\* block numbers the node can report: from 0 to MaxEventBlock confirmed blocks
Heads == 0..(get_block_delay(net_version) + MaxEventBlock)

TxHashes == {"0xA", "0xB"}

Range(s) == {s[i] : i \in 1..Len(s)}

\* web3.check_for_events(start, Some(end), [contract], [signature]): the logs
\* of that signature in blocks start..end
check_for_events_logs(from, to, kind) ==
    LET InRange(l) == l.kind = kind /\ from <= l.block /\ l.block <= to
    IN  IF kind = "ValsetUpdated" THEN SelectSeq(valset_log, InRange)
        ELSE SelectSeq(evm_log, InRange)

QueryOk(logs) == [ok |-> TRUE, logs |-> logs]
QueryErr      == [ok |-> FALSE, logs |-> <<>>]

\* X::from_logs(&logs): one typed event per log
from_logs(kind, logs) ==
    IF kind = "ValsetUpdated"
    THEN [i \in 1..Len(logs) |-> [kind |-> kind, nonce |-> logs[i].data, block |-> logs[i].block]]
    ELSE [i \in 1..Len(logs) |-> [kind |-> kind, event_nonce |-> logs[i].data, block |-> logs[i].block]]

\* X::filter_by_event_nonce(event_nonce, &input)
filter_by_event_nonce(event_nonce, input) ==
    LET Keep(item) == item.event_nonce > event_nonce
    IN  SelectSeq(input, Keep)

\* lines 112-118: the four lists that are filtered against last_event_nonce
FilteredClaims_LogicCallsUnfiltered(nonce, events) ==
    [k \in ClaimKinds |-> IF k = "LogicCallExecuted" THEN events[k]
                          ELSE filter_by_event_nonce(nonce, events[k])]

FilteredClaims_OffByOne(nonce, events) ==
    [k \in ClaimKinds |-> filter_by_event_nonce(nonce - 1, events[k])]

FilteredClaims(nonce, events) ==
    [k \in ClaimKinds |-> filter_by_event_nonce(nonce, events[k])]

\* lines 173-176: is there anything to submit
ShouldSubmit_NoLogicCalls(c) ==
    \/ c["SendToCosmos"] # <<>>
    \/ c["BatchExecuted"] # <<>>
    \/ c["ERC20Deployed"] # <<>>

ShouldSubmit(c) ==
    \/ c["SendToCosmos"] # <<>>
    \/ c["BatchExecuted"] # <<>>
    \/ c["ERC20Deployed"] # <<>>
    \/ c["LogicCallExecuted"] # <<>>

\* lines 178-186: the lists handed to send_ethereum_claims
ClaimsTx(c) ==
    [deposits |-> c["SendToCosmos"], withdraws |-> c["BatchExecuted"],
     erc20_deploys |-> c["ERC20Deployed"], logic_calls |-> c["LogicCallExecuted"]]

TxEvents(tx) ==
    Range(tx.deposits) \cup Range(tx.withdraws) \cup Range(tx.erc20_deploys)
        \cup Range(tx.logic_calls)

\* The native chain applies claims in strict event_nonce order and may stop
\* at any point: the nonces it can end at after receiving tx.
RECURSIVE ApplyUpTo(_, _)
ApplyUpTo(nonce, tx) ==
    IF \E e \in TxEvents(tx) : e.event_nonce = nonce + 1
    THEN {nonce} \cup ApplyUpTo(nonce + 1, tx)
    ELSE {nonce}

(***************************************************************************)
(* Results of check_for_events.                                            *)
(***************************************************************************)
Ok(block)        == [tag |-> "Ok", err |-> "none", block |-> block, txhash |-> "none"]
Err(kind)        == [tag |-> "Err", err |-> kind, block |-> NoBlock, txhash |-> "none"]
ErrTx(kind, txh) == [tag |-> "Err", err |-> kind, block |-> NoBlock, txhash |-> txh]
NoResult         == [tag |-> "none", err |-> "none", block |-> NoBlock, txhash |-> "none"]

NoQueries == [k \in EventKinds |-> QueryErr]
NoParsed  == [k \in EventKinds |-> <<>>]
NoClaims  == [k \in ClaimKinds |-> <<>>]

WInitLocal ==
    /\ wpc = "idle"
    /\ retries = 0
    /\ head = NoBlock
    /\ latest_block = NoBlock
    /\ queries = NoQueries
    /\ parsed = NoParsed
    /\ last_event_nonce = NoNonce
    /\ claims = NoClaims
    /\ sent = <<>>
    /\ txhash = "none"
    /\ new_event_nonce = NoNonce
    /\ wresult = NoResult

Procs == {1, 2}

NoValsetArgs == [new_valset |-> [nonce |-> NoNonce], old_valset |-> [nonce |-> NoNonce],
                 confirms |-> {}]

VInitLocal ==
    /\ txstatus = [p \in Procs |-> "none"]
    /\ vpc = [p \in Procs |-> "start"]
    /\ vin = [p \in Procs |-> NoValsetArgs]
    /\ before_nonce = [p \in Procs |-> NoNonce]
    /\ vtx = [p \in Procs |-> <<>>]
    /\ last_nonce = [p \in Procs |-> NoNonce]
    /\ vresult = [p \in Procs |-> "none"]

VIdle ==
    /\ eth_valset_nonce = 0
    /\ VInitLocal

Tokens == {"T1", "T2"}

None == [some |-> FALSE]
Some(x) == [some |-> TRUE, value |-> x]

BInitLocal ==
    /\ bpc = "start"
    /\ latest_batches = <<>>
    /\ bi = 0
    /\ bsigs = <<>>
    /\ oldest_signed_batch = None
    /\ oldest_signatures = None
    /\ latest_ethereum_batch = None
    /\ bcalls = <<>>

BIdle ==
    /\ eth_batch_nonce = [t \in Tokens |-> 0]
    /\ BInitLocal

WIdle ==
    /\ evm_log = <<>>
    /\ valset_log = <<>>
    /\ net_version = 1
    /\ cosmos_nonce = 0
    /\ starting_block = 0
    /\ WInitLocal

DIdle == dnet = 0 /\ ddelay = NoBlock

\* return value of the invocation
Return(r) ==
    /\ wresult' = r
    /\ wpc' = "returned"

(***************************************************************************)
(* check_for_events, one action per suspension point.                      *)
(***************************************************************************)
\* a failed attempt inside a read that retries: it waits and asks again
RetryRead ==
    /\ retries < MaxRetries
    /\ retries' = retries + 1

\* line 35: get_block_number_with_retry
GetBlockNumber_NoRetry ==
    /\ wpc = "idle"
    /\ \/ /\ Return(Err("EthereumRestError"))
          /\ UNCHANGED <<retries, head>>
       \/ /\ \E h \in Heads : head' = h
          /\ wpc' = "get_block_delay"
          /\ UNCHANGED <<retries, wresult>>
    /\ UNCHANGED <<wenv, cosmos_nonce, starting_block, latest_block, queries, parsed,
                   last_event_nonce, claims, sent, txhash, new_event_nonce>>
    /\ UNCHANGED <<dvars, vvars, bvars>>

GetBlockNumber ==
    /\ wpc = "idle"
    /\ \/ /\ RetryRead
          /\ UNCHANGED <<wpc, head, wresult>>
       \/ /\ \E h \in Heads : head' = h
          /\ wpc' = "get_block_delay"
          /\ retries' = 0
          /\ UNCHANGED wresult
    /\ UNCHANGED <<wenv, cosmos_nonce, starting_block, latest_block, queries, parsed,
                   last_event_nonce, claims, sent, txhash, new_event_nonce>>
    /\ UNCHANGED <<dvars, vvars, bvars>>

\* line 36: latest_block - get_block_delay(web3)
ScanUpper_NoDelay(h, nv) == h

ScanUpper(h, nv) == h - get_block_delay(nv)

\* lines 36 and 233-235: the net version read, which retries, and the
\* subtraction; Uint256 subtraction panics when the result would be negative
GetBlockDelay ==
    /\ wpc = "get_block_delay"
    /\ \/ /\ RetryRead
          /\ UNCHANGED <<wpc, latest_block>>
       \/ /\ IF ScanUpper(head, net_version) < 0
             THEN /\ wpc' = "panicked"
                  /\ UNCHANGED latest_block
             ELSE /\ latest_block' = ScanUpper(head, net_version)
                  /\ wpc' = "query_logs"
          /\ retries' = 0
    /\ UNCHANGED <<wenv, cosmos_nonce, starting_block, head, queries, parsed,
                   last_event_nonce, claims, sent, txhash, new_event_nonce, wresult>>
    /\ UNCHANGED <<dvars, vvars, bvars>>

\* lines 88-94 and 205-210: all five must be Ok
AllQueriesOk_NoLogicCalls(q) ==
    /\ q["ValsetUpdated"].ok
    /\ q["BatchExecuted"].ok
    /\ q["SendToCosmos"].ok
    /\ q["ERC20Deployed"].ok

AllQueriesOk(q) ==
    /\ q["ValsetUpdated"].ok
    /\ q["BatchExecuted"].ok
    /\ q["SendToCosmos"].ok
    /\ q["ERC20Deployed"].ok
    /\ q["LogicCallExecuted"].ok

\* which of the five queries fail in one cycle: none, any single one, or all
QueryFailures == {{}} \cup {{k} : k \in EventKinds} \cup {EventKinds}

\* lines 38-94 and 205-210: the five log queries over
\* starting_block..latest_block, each of which may fail, then the match
QueryLogs ==
    /\ wpc = "query_logs"
    /\ \E failed \in QueryFailures :
          queries' = [k \in EventKinds |->
                         IF k \in failed THEN QueryErr
                         ELSE QueryOk(check_for_events_logs(starting_block, latest_block, k))]
    /\ IF AllQueriesOk(queries')
       THEN wpc' = "from_logs" /\ UNCHANGED wresult
       ELSE Return(Err("EthereumRestError"))
    /\ UNCHANGED <<retries, wenv, cosmos_nonce, starting_block, head, latest_block, parsed,
                   last_event_nonce, claims, sent, txhash, new_event_nonce>>
    /\ UNCHANGED <<dvars, vvars, bvars>>

\* lines 95-104: the five from_logs; decoding a log may fail
FromLogs_OkOnError ==
    /\ wpc = "from_logs"
    /\ \E decode_ok \in {TRUE} \cup {FALSE : k \in {j \in EventKinds : queries[j].logs # <<>>}} :
          IF decode_ok
          THEN /\ parsed' = [k \in EventKinds |-> from_logs(k, queries[k].logs)]
               /\ wpc' = "get_last_event_nonce"
               /\ UNCHANGED wresult
          ELSE /\ Return(Ok(latest_block))
               /\ UNCHANGED parsed
    /\ UNCHANGED <<retries, wenv, cosmos_nonce, starting_block, head, latest_block, queries,
                   last_event_nonce, claims, sent, txhash, new_event_nonce>>
    /\ UNCHANGED <<dvars, vvars, bvars>>

FromLogs ==
    /\ wpc = "from_logs"
    /\ \E decode_ok \in {TRUE} \cup {FALSE : k \in {j \in EventKinds : queries[j].logs # <<>>}} :
          IF decode_ok
          THEN /\ parsed' = [k \in EventKinds |-> from_logs(k, queries[k].logs)]
               /\ wpc' = "get_last_event_nonce"
               /\ UNCHANGED wresult
          ELSE /\ Return(Err("InvalidEventLogError"))
               /\ UNCHANGED parsed
    /\ UNCHANGED <<retries, wenv, cosmos_nonce, starting_block, head, latest_block, queries,
                   last_event_nonce, claims, sent, txhash, new_event_nonce>>
    /\ UNCHANGED <<dvars, vvars, bvars>>

\* lines 111-118 and 173-177, 204: read the nonce, filter, decide
GetLastEventNonce ==
    /\ wpc = "get_last_event_nonce"
    /\ \E read_ok \in BOOLEAN :
          IF ~read_ok
          THEN /\ Return(Err("CosmosGrpcError"))
               /\ UNCHANGED <<last_event_nonce, claims>>
          ELSE /\ last_event_nonce' = cosmos_nonce
               /\ claims' = FilteredClaims(cosmos_nonce, parsed)
               /\ IF ShouldSubmit(claims')
                  THEN wpc' = "send_ethereum_claims" /\ UNCHANGED wresult
                  ELSE Return(Ok(latest_block))
    /\ UNCHANGED <<retries, wenv, cosmos_nonce, starting_block, head, latest_block, queries, parsed,
                   sent, txhash, new_event_nonce>>
    /\ UNCHANGED <<dvars, vvars, bvars>>

\* lines 178-187: one combined claims transaction; the native chain applies
\* the claims it accepts, whether or not the response reaches the caller
SendEthereumClaims ==
    /\ wpc = "send_ethereum_claims"
    /\ LET tx == ClaimsTx(claims)
       IN  /\ sent' = Append(sent, tx)
           /\ \E n \in ApplyUpTo(cosmos_nonce, tx) : cosmos_nonce' = n
           /\ \E response_ok \in BOOLEAN :
                 IF response_ok
                 THEN /\ \E h \in TxHashes : txhash' = h
                      /\ wpc' = "reread_nonce"
                      /\ UNCHANGED wresult
                 ELSE /\ Return(Err("CosmosGrpcError"))
                      /\ UNCHANGED txhash
    /\ UNCHANGED <<retries, wenv, starting_block, head, latest_block, queries, parsed,
                   last_event_nonce, claims, new_event_nonce>>
    /\ UNCHANGED <<dvars, vvars, bvars>>

\* lines 192-204: the comparison after the second read
RereadResult_NoCheck(new_nonce, old_nonce, txh, latest) == Ok(latest)

RereadResult(new_nonce, old_nonce, txh, latest) ==
    IF new_nonce = old_nonce
    THEN ErrTx("InvalidBridgeStateError", txh)
    ELSE Ok(latest)

\* lines 189-204: read the nonce again and compare
RereadNonce ==
    /\ wpc = "reread_nonce"
    /\ \E read_ok \in BOOLEAN :
          IF ~read_ok
          THEN /\ Return(Err("CosmosGrpcError"))
               /\ UNCHANGED new_event_nonce
          ELSE /\ new_event_nonce' = cosmos_nonce
               /\ Return(RereadResult(new_event_nonce', last_event_nonce, txhash, latest_block))
    /\ UNCHANGED <<retries, wenv, cosmos_nonce, starting_block, head, latest_block, queries, parsed,
                   last_event_nonce, claims, sent, txhash>>
    /\ UNCHANGED <<dvars, vvars, bvars>>

\* the calling loop: an Ok result is the next starting_block, an error
\* leaves it as it was
MainLoop ==
    /\ wpc = "returned"
    /\ starting_block' = IF wresult.tag = "Ok" THEN wresult.block ELSE starting_block
    /\ wpc' = "idle"
    /\ retries' = 0
    /\ head' = NoBlock
    /\ latest_block' = NoBlock
    /\ queries' = NoQueries
    /\ parsed' = NoParsed
    /\ last_event_nonce' = NoNonce
    /\ claims' = NoClaims
    /\ sent' = <<>>
    /\ txhash' = "none"
    /\ new_event_nonce' = NoNonce
    /\ wresult' = NoResult
    /\ UNCHANGED <<wenv, cosmos_nonce>>
    /\ UNCHANGED <<dvars, vvars, bvars>>

WInit ==
    /\ evm_log \in EventLogs
    /\ valset_log \in ValsetLogs
    /\ net_version \in {1, 4}
    /\ cosmos_nonce = 0
    /\ starting_block = 0
    /\ WInitLocal
    /\ DIdle
    /\ VIdle
    /\ BIdle

WNext ==
    \/ GetBlockNumber
    \/ GetBlockDelay
    \/ QueryLogs
    \/ FromLogs
    \/ GetLastEventNonce
    \/ SendEthereumClaims
    \/ RereadNonce
    \/ MainLoop

SpecWatcher == WInit /\ [][WNext]_vars

(***************************************************************************)
(* check_for_events when every call succeeds: the reads and queries return *)
(* at the first attempt, the node reports a head under which every event   *)
(* of the log is block_delay deep, logs decode, and the native chain       *)
(* applies, in event_nonce order, at least the first claim of a submission *)
(* whenever that claim is the next one it expects.  The calling loop keeps *)
(* running cycles.                                                         *)
(***************************************************************************)
DeepHead == get_block_delay(net_version) + MaxEventBlock

LiveGetBlockNumber == GetBlockNumber /\ head' = DeepHead

LiveGetBlockDelay == GetBlockDelay /\ wpc' = "query_logs"

LiveQueryLogs == QueryLogs /\ wpc' = "from_logs"

LiveFromLogs == FromLogs /\ wpc' = "get_last_event_nonce"

LiveGetLastEventNonce == GetLastEventNonce /\ last_event_nonce' # NoNonce

LiveSendEthereumClaims ==
    /\ SendEthereumClaims
    /\ wpc' = "reread_nonce"
    /\ cosmos_nonce' = cosmos_nonce =>
          ApplyUpTo(cosmos_nonce, ClaimsTx(claims)) = {cosmos_nonce}

LiveRereadNonce == RereadNonce /\ new_event_nonce' # NoNonce

LiveNext ==
    \/ LiveGetBlockNumber
    \/ LiveGetBlockDelay
    \/ LiveQueryLogs
    \/ LiveFromLogs
    \/ LiveGetLastEventNonce
    \/ LiveSendEthereumClaims
    \/ LiveRereadNonce
    \/ MainLoop

SpecWatcherFair == WInit /\ [][LiveNext]_vars /\ WF_vars(LiveNext)

(***************************************************************************)
(* get_block_delay evaluated on every net id.                              *)
(***************************************************************************)
DInit ==
    /\ WIdle
    /\ VIdle
    /\ BIdle
    /\ dnet \in 0..MaxNetId
    /\ ddelay = NoBlock

CallGetBlockDelay ==
    /\ ddelay = NoBlock
    /\ ddelay' = get_block_delay(dnet)
    /\ UNCHANGED <<dnet, wvars, vvars, bvars>>

DNext == CallGetBlockDelay

SpecDelay == DInit /\ [][DNext]_vars

(***************************************************************************)
(* send_eth_valset_update.  Two relayer instances run it against the same  *)
(* bridge contract; each instance is invoked once with arguments of its    *)
(* own.                                                                    *)
(***************************************************************************)
\* the validators of the set held by the contract, in the contract's order
Members ==
    <<[eth_address |-> "v1", power |-> 40],
      [eth_address |-> "v2", power |-> 35],
      [eth_address |-> "v3", power |-> 25]>>

Validators == {Members[i].eth_address : i \in 1..Len(Members)}

\* voting power the signatures present must reach
PowerThreshold == 66

\* the same validators after a change of powers: successive validator sets
\* differ in the power of their members
NextMembers ==
    <<[eth_address |-> "v1", power |-> 25],
      [eth_address |-> "v2", power |-> 35],
      [eth_address |-> "v3", power |-> 40]>>

Valset(n) == [nonce |-> n, members |-> IF n % 2 = 0 THEN Members ELSE NextMembers]

\* encode_valset_confirm_hashed(peggy_id, valset): the message validators sign
encode_valset_confirm_hashed(valset) == <<"checkpoint", valset.nonce>>

ZeroSig == [v |-> 0, signer |-> "0x0"]

RECURSIVE SumPower(_, _)
SumPower(members, sigs) ==
    IF members = <<>> THEN 0
    ELSE (IF Head(sigs) # ZeroSig THEN Head(members).power ELSE 0)
             + SumPower(Tail(members), Tail(sigs))

\* valset.order_sigs(&hash, confirms): one signature per member, in the
\* member order, zero where the member has not signed hash; an error when the
\* power of the members that signed is below the threshold
order_sigs(valset, hash, confs) ==
    LET sigs == [i \in 1..Len(valset.members) |->
                    IF \E c \in confs : c.eth_address = valset.members[i].eth_address
                                          /\ c.hash = hash
                    THEN [v |-> 27, signer |-> valset.members[i].eth_address]
                    ELSE ZeroSig]
    IN  [ok |-> SumPower(valset.members, sigs) >= PowerThreshold, sigs |-> sigs]

\* lines 135-183: encode_valset_payload
encode_valset_payload_AgainstNew(new_valset, old_valset, confs) ==
    LET hash == encode_valset_confirm_hashed(new_valset)
        sig_data == order_sigs(new_valset, hash, confs)
    IN  [ok |-> sig_data.ok,
         call |-> "updateValset",
         new_nonce |-> new_valset.nonce,
         old_nonce |-> old_valset.nonce,
         sigs |-> sig_data.sigs]

encode_valset_payload(new_valset, old_valset, confs) ==
    LET hash == encode_valset_confirm_hashed(new_valset)
        sig_data == order_sigs(old_valset, hash, confs)
    IN  [ok |-> sig_data.ok,
         call |-> "updateValset",
         new_nonce |-> new_valset.nonce,
         old_nonce |-> old_valset.nonce,
         sigs |-> sig_data.sigs]

\* the contract's updateValset: the current valset supplied must be the one
\* stored, the new nonce higher, and the signatures over the new valset must
\* carry enough power of the stored valset
ContractAccepts(tx) ==
    /\ tx.old_nonce = eth_valset_nonce
    /\ tx.new_nonce > tx.old_nonce
    /\ SumPower(Valset(eth_valset_nonce).members, tx.sigs) >= PowerThreshold

ConfirmSets(new_valset) ==
    {{[eth_address |-> a, hash |-> encode_valset_confirm_hashed(new_valset)] : a \in S} :
        S \in SUBSET Validators}

VReturn(p, r) ==
    /\ vresult' = [vresult EXCEPT ![p] = r]
    /\ vpc' = [vpc EXCEPT ![p] = "returned"]

\* lines 25-27: the call and its assertion
Invoke(p) ==
    /\ vpc[p] = "start"
    /\ \E old \in 0..MaxValsetNonce : \E new \in 0..MaxValsetNonce :
       \E confs \in ConfirmSets(Valset(new)) :
          /\ vin' = [vin EXCEPT ![p] = [new_valset |-> Valset(new), old_valset |-> Valset(old),
                                        confirms |-> confs]]
          /\ vpc' = [vpc EXCEPT ![p] = IF new > old THEN "get_before_nonce" ELSE "panicked"]
    /\ UNCHANGED <<eth_valset_nonce, txstatus, before_nonce, vtx, last_nonce, vresult>>
    /\ UNCHANGED <<wvars, dvars, bvars>>

\* lines 40-50: is the contract still at old_valset
IsStale_OnlyBehind(before, old_nonce) == before < old_nonce

IsStale(before, old_nonce) == before # old_nonce

\* lines 39-50: read the contract's nonce; leave when someone else moved it
GetBeforeNonce(p) ==
    /\ vpc[p] = "get_before_nonce"
    /\ \E read_ok \in BOOLEAN :
          IF ~read_ok
          THEN /\ VReturn(p, "Err")
               /\ UNCHANGED before_nonce
          ELSE /\ before_nonce' = [before_nonce EXCEPT ![p] = eth_valset_nonce]
               /\ IF IsStale(eth_valset_nonce, vin[p].old_valset.nonce)
                  THEN VReturn(p, "Ok")
                  ELSE /\ vpc' = [vpc EXCEPT ![p] = "send_transaction"]
                       /\ UNCHANGED vresult
    /\ UNCHANGED <<eth_valset_nonce, txstatus, vin, vtx, last_nonce>>
    /\ UNCHANGED <<wvars, dvars, bvars>>

\* lines 52-63: encode the call, then broadcast it
SendTransaction(p) ==
    /\ vpc[p] = "send_transaction"
    /\ LET payload == encode_valset_payload(vin[p].new_valset, vin[p].old_valset,
                                            vin[p].confirms)
       IN  IF ~payload.ok
           THEN /\ VReturn(p, "Err")
                /\ UNCHANGED <<vtx, txstatus>>
           ELSE \E send_ok \in BOOLEAN :
                  IF ~send_ok
                  THEN /\ VReturn(p, "Err")
                       /\ UNCHANGED <<vtx, txstatus>>
                  ELSE /\ vtx' = [vtx EXCEPT ![p] = Append(@, payload)]
                       /\ txstatus' = [txstatus EXCEPT ![p] = "pending"]
                       /\ vpc' = [vpc EXCEPT ![p] = "wait_for_transaction"]
                       /\ UNCHANGED vresult
    /\ UNCHANGED <<eth_valset_nonce, vin, before_nonce, last_nonce>>
    /\ UNCHANGED <<wvars, dvars, bvars>>

\* the EVM chain includes the pending transaction of p in a block
MineTx(p) ==
    /\ txstatus[p] = "pending"
    /\ LET tx == vtx[p][Len(vtx[p])]
       IN  IF ContractAccepts(tx)
           THEN /\ eth_valset_nonce' = tx.new_nonce
                /\ txstatus' = [txstatus EXCEPT ![p] = "executed"]
           ELSE /\ txstatus' = [txstatus EXCEPT ![p] = "reverted"]
                /\ UNCHANGED eth_valset_nonce
    /\ UNCHANGED <<vpc, vin, before_nonce, vtx, last_nonce, vresult>>
    /\ UNCHANGED <<wvars, dvars, bvars>>

\* line 70: wait for the transaction to be in a block, or time out
WaitForTransaction_ResendOnRevert(p) ==
    /\ vpc[p] = "wait_for_transaction"
    /\ IF txstatus[p] = "pending"
       THEN VReturn(p, "Err")
       ELSE /\ vpc' = [vpc EXCEPT ![p] = IF txstatus[p] = "reverted"
                                          THEN "send_transaction" ELSE "get_last_nonce"]
            /\ UNCHANGED vresult
    /\ UNCHANGED <<eth_valset_nonce, txstatus, vin, before_nonce, vtx, last_nonce>>
    /\ UNCHANGED <<wvars, dvars, bvars>>

WaitForTransaction(p) ==
    /\ vpc[p] = "wait_for_transaction"
    /\ IF txstatus[p] = "pending"
       THEN VReturn(p, "Err")
       ELSE /\ vpc' = [vpc EXCEPT ![p] = "get_last_nonce"]
            /\ UNCHANGED vresult
    /\ UNCHANGED <<eth_valset_nonce, txstatus, vin, before_nonce, vtx, last_nonce>>
    /\ UNCHANGED <<wvars, dvars, bvars>>

\* lines 73-93: both branches of the comparison only log; the result is Ok
LastNonceResult_ErrOnMismatch(last, new_nonce) == IF last # new_nonce THEN "Err" ELSE "Ok"

LastNonceResult(last, new_nonce) == "Ok"

\* lines 72-93: read the nonce again, log either way, return Ok
GetLastNonce(p) ==
    /\ vpc[p] = "get_last_nonce"
    /\ \E read_ok \in BOOLEAN :
          IF ~read_ok
          THEN /\ VReturn(p, "Err")
               /\ UNCHANGED last_nonce
          ELSE /\ last_nonce' = [last_nonce EXCEPT ![p] = eth_valset_nonce]
               /\ VReturn(p, LastNonceResult(eth_valset_nonce, vin[p].new_valset.nonce))
    /\ UNCHANGED <<eth_valset_nonce, txstatus, vin, before_nonce, vtx>>
    /\ UNCHANGED <<wvars, dvars, bvars>>

VInit ==
    /\ WIdle
    /\ DIdle
    /\ BIdle
    /\ eth_valset_nonce \in 0..1
    /\ VInitLocal

VNext ==
    \E p \in Procs :
        \/ Invoke(p)
        \/ GetBeforeNonce(p)
        \/ SendTransaction(p)
        \/ MineTx(p)
        \/ WaitForTransaction(p)
        \/ GetLastNonce(p)

SpecValset == VInit /\ [][VNext]_vars

(***************************************************************************)
(* relay_batches.                                                          *)
(***************************************************************************)
Batches == [token_contract : Tokens, nonce : 1..MaxBatchNonce]

\* what get_latest_transaction_batches can return: (token_contract, nonce)
\* is unique, the order is the native chain's
BatchLists ==
    UNION {{l \in [1..n -> Batches] : \A i \in 1..n : \A j \in 1..n : i # j => l[i] # l[j]} :
              n \in 0..MaxBatches}

\* encode_tx_batch_confirm_hashed(peggy_id, batch): the message validators sign
encode_tx_batch_confirm_hashed(batch) ==
    <<"transactionBatch", batch.token_contract, batch.nonce>>

\* who has signed a batch when its confirmations are fetched
BatchSignerSets == {{"v1", "v2", "v3"}, {"v1", "v2"}, {"v1", "v3"}}

\* what get_transaction_batch_signatures can return for a batch
BatchSigResults(batch) ==
    {[ok |-> FALSE, sigs |-> {}]} \cup
    {[ok |-> TRUE,
      sigs |-> {[eth_address |-> a, hash |-> encode_tx_batch_confirm_hashed(batch)] : a \in S}] :
        S \in BatchSignerSets}

\* the validator set currently in the contract
current_valset == Valset(0)

\* lines 43-46: the confirmations were fetched and can be ordered
Submittable_FetchOnly(batch, sigs) == sigs.ok

Submittable(batch, sigs) ==
    /\ sigs.ok
    /\ order_sigs(current_valset, encode_tx_batch_confirm_hashed(batch), sigs.sigs).ok

\* line 91: is the batch newer than the last one the contract executed
ShouldRelay_OrEqual(cosmos_batch_nonce, ethereum_batch_nonce) ==
    cosmos_batch_nonce >= ethereum_batch_nonce

ShouldRelay(cosmos_batch_nonce, ethereum_batch_nonce) ==
    cosmos_batch_nonce > ethereum_batch_nonce

\* lines 31-36: the query for the latest batches
GetLatestBatches ==
    /\ bpc = "start"
    /\ \E query_ok \in BOOLEAN :
          IF ~query_ok
          THEN /\ bpc' = "returned"
               /\ UNCHANGED <<latest_batches, bi>>
          ELSE /\ \E l \in BatchLists : latest_batches' = l
               /\ bi' = 1
               /\ bpc' = "loop"
    /\ UNCHANGED <<eth_batch_nonce, bsigs, oldest_signed_batch, oldest_signatures,
                   latest_ethereum_batch, bcalls>>
    /\ UNCHANGED <<wvars, dvars, vvars>>

\* lines 39-66: one turn of the loop over latest_batches
LoopBody ==
    /\ bpc = "loop"
    /\ bi <= Len(latest_batches)
    /\ LET batch == latest_batches[bi]
       IN  \E sigs \in BatchSigResults(batch) :
              /\ bsigs' = Append(bsigs, sigs)
              /\ IF Submittable(batch, sigs)
                 THEN /\ oldest_signed_batch' = Some(batch)
                      /\ oldest_signatures' = Some(sigs.sigs)
                 ELSE UNCHANGED <<oldest_signed_batch, oldest_signatures>>
    /\ bi' = bi + 1
    /\ UNCHANGED <<eth_batch_nonce, bpc, latest_batches, latest_ethereum_batch, bcalls>>
    /\ UNCHANGED <<wvars, dvars, vvars>>

\* lines 67-91: after the loop: nothing signed, or the contract's nonce for
\* the token of the batch is read and compared
GetTxBatchNonce ==
    /\ bpc = "loop"
    /\ bi > Len(latest_batches)
    /\ IF ~oldest_signed_batch.some
       THEN /\ bpc' = "returned"
            /\ UNCHANGED <<latest_ethereum_batch, bcalls>>
       ELSE LET erc20_contract == oldest_signed_batch.value.token_contract
            IN  /\ bcalls' = Append(bcalls, <<"get_tx_batch_nonce", erc20_contract>>)
                /\ \E read_ok \in BOOLEAN :
                      IF ~read_ok
                      THEN /\ latest_ethereum_batch' = Some([ok |-> FALSE, nonce |-> NoNonce])
                           /\ bpc' = "returned"
                      ELSE /\ latest_ethereum_batch' =
                                  Some([ok |-> TRUE, nonce |-> eth_batch_nonce[erc20_contract]])
                           /\ bpc' = IF ShouldRelay(oldest_signed_batch.value.nonce,
                                                    eth_batch_nonce[erc20_contract])
                                     THEN "estimate_tx_batch_cost" ELSE "returned"
    /\ UNCHANGED <<eth_batch_nonce, latest_batches, bi, bsigs, oldest_signed_batch,
                   oldest_signatures>>
    /\ UNCHANGED <<wvars, dvars, vvars>>

\* lines 92-106: the gas estimate
EstimateTxBatchCost_IgnoreError ==
    /\ bpc = "estimate_tx_batch_cost"
    /\ \E estimate_ok \in BOOLEAN :
          /\ bcalls' = Append(bcalls, <<"estimate_tx_batch_cost", oldest_signed_batch.value,
                                        estimate_ok>>)
          /\ bpc' = "send_eth_transaction_batch"
    /\ UNCHANGED <<eth_batch_nonce, latest_batches, bi, bsigs, oldest_signed_batch,
                   oldest_signatures, latest_ethereum_batch>>
    /\ UNCHANGED <<wvars, dvars, vvars>>

EstimateTxBatchCost ==
    /\ bpc = "estimate_tx_batch_cost"
    /\ \E estimate_ok \in BOOLEAN :
          /\ bcalls' = Append(bcalls, <<"estimate_tx_batch_cost", oldest_signed_batch.value,
                                        estimate_ok>>)
          /\ bpc' = IF estimate_ok THEN "send_eth_transaction_batch" ELSE "returned"
    /\ UNCHANGED <<eth_batch_nonce, latest_batches, bi, bsigs, oldest_signed_batch,
                   oldest_signatures, latest_ethereum_batch>>
    /\ UNCHANGED <<wvars, dvars, vvars>>

\* lines 124-142: submitBatch is broadcast and its receipt awaited; the
\* contract executes a batch that is newer than the last one of its token
SendEthTransactionBatch ==
    /\ bpc = "send_eth_transaction_batch"
    /\ LET batch == oldest_signed_batch.value
       IN  /\ bcalls' = Append(bcalls, <<"send_eth_transaction_batch", batch>>)
           /\ \E executed \in BOOLEAN :
                 IF executed /\ batch.nonce > eth_batch_nonce[batch.token_contract]
                 THEN eth_batch_nonce' =
                          [eth_batch_nonce EXCEPT ![batch.token_contract] = batch.nonce]
                 ELSE UNCHANGED eth_batch_nonce
    /\ bpc' = "returned"
    /\ UNCHANGED <<latest_batches, bi, bsigs, oldest_signed_batch, oldest_signatures,
                   latest_ethereum_batch>>
    /\ UNCHANGED <<wvars, dvars, vvars>>

\* the calling loop starts the next cycle
RelayerLoop ==
    /\ bpc = "returned"
    /\ bpc' = "start"
    /\ latest_batches' = <<>>
    /\ bi' = 0
    /\ bsigs' = <<>>
    /\ oldest_signed_batch' = None
    /\ oldest_signatures' = None
    /\ latest_ethereum_batch' = None
    /\ bcalls' = <<>>
    /\ UNCHANGED eth_batch_nonce
    /\ UNCHANGED <<wvars, dvars, vvars>>

BInit ==
    /\ WIdle
    /\ DIdle
    /\ VIdle
    /\ eth_batch_nonce \in [Tokens -> 0..MaxBatchNonce]
    /\ BInitLocal

BNext ==
    \/ GetLatestBatches
    \/ LoopBody
    \/ GetTxBatchNonce
    \/ EstimateTxBatchCost
    \/ SendEthTransactionBatch
    \/ RelayerLoop

SpecBatch == BInit /\ [][BNext]_vars

(***************************************************************************)
(* relay_batches when every call succeeds and the native chain lists, in   *)
(* every cycle, a batch newer than the last one the contract executed for  *)
(* its token; every listed batch has confirmations that pass order_sigs.   *)
(* The calling loop keeps running cycles.                                  *)
(***************************************************************************)
\* the batch is newer than the last one the contract executed for its token
Relayable(batch) == batch.nonce > eth_batch_nonce[batch.token_contract]

LiveGetLatestBatches ==
    /\ GetLatestBatches
    /\ \E i \in 1..Len(latest_batches') : Relayable(latest_batches'[i])

LiveLoopBody ==
    /\ LoopBody
    /\ Submittable(latest_batches[bi], bsigs'[Len(bsigs')])

LiveGetTxBatchNonce ==
    /\ GetTxBatchNonce
    /\ latest_ethereum_batch'.some
    /\ latest_ethereum_batch'.value.ok

LiveEstimateTxBatchCost ==
    /\ EstimateTxBatchCost
    /\ bpc' = "send_eth_transaction_batch"

LiveBNext ==
    \/ LiveGetLatestBatches
    \/ LiveLoopBody
    \/ LiveGetTxBatchNonce
    \/ LiveEstimateTxBatchCost
    \/ SendEthTransactionBatch
    \/ RelayerLoop

SpecBatchFair == BInit /\ [][LiveBNext]_vars /\ WF_vars(LiveBNext)

(***************************************************************************)
(* Properties of check_for_events.                                         *)
(***************************************************************************)
\* the cycle has made its five log queries
AfterQueries ==
    wpc \in {"from_logs", "get_last_event_nonce", "send_ethereum_claims", "reread_nonce",
             "returned"}

\* the nonce-bearing events the contract emitted in blocks from..to, as typed events
EmittedIn(from, to) ==
    {[kind |-> l.kind, event_nonce |-> l.data, block |-> l.block] :
        l \in {m \in Range(evm_log) : from <= m.block /\ m.block <= to}}

\* C1: every claims transaction a cycle submits carries exactly the events
\* decoded from the scanned range starting_block..latest_block whose
\* event_nonce is strictly greater than the last_event_nonce read in that
\* cycle: none at or below it, none above it left out.
C1_SubmittedIsFiltered ==
    \A i \in 1..Len(sent) :
        TxEvents(sent[i]) =
            {e \in EmittedIn(starting_block, latest_block) : e.event_nonce > last_event_nonce}

\* C1 witness: an event at the nonce read was decoded and left out, the next
\* one was submitted
C1_Witness ==
    /\ Len(sent) = 1
    /\ last_event_nonce = 1
    /\ \E k \in ClaimKinds : \E e \in Range(parsed[k]) : e.event_nonce = 1
    /\ \E e \in TxEvents(sent[1]) : e.event_nonce = 2

\* C2: when one of the five log queries has failed the cycle goes no further:
\* it returns an error, has submitted no claims transaction, and the caller
\* keeps its starting_block (and the native chain its nonce).
C2_QueryFailureAborts ==
    /\ [](AfterQueries /\ (\E k \in EventKinds : ~queries[k].ok)
            => wpc = "returned" /\ wresult.tag = "Err" /\ sent = <<>>)
    /\ [][wpc = "returned" /\ (\E k \in EventKinds : ~queries[k].ok)
            => starting_block' = starting_block /\ cosmos_nonce' = cosmos_nonce]_vars

\* C2 witness: one query failed while another returned logs
C2_Witness ==
    /\ wpc = "returned"
    /\ ~queries["LogicCallExecuted"].ok
    /\ queries["SendToCosmos"].ok
    /\ queries["SendToCosmos"].logs # <<>>

\* C3: once the nonce has been read again after a submission, an unchanged
\* nonce makes the cycle return InvalidBridgeState with the hash of the
\* submitted transaction and the caller keeps its starting_block; a changed
\* nonce makes it return Ok with latest_block, the caller's next starting_block.
C3_RereadDecides ==
    /\ [](wpc = "returned" /\ new_event_nonce # NoNonce =>
            /\ sent # <<>>
            /\ new_event_nonce = cosmos_nonce
            /\ txhash \in TxHashes
            /\ IF cosmos_nonce = last_event_nonce
               THEN /\ wresult.tag = "Err"
                    /\ wresult.err = "InvalidBridgeStateError"
                    /\ wresult.txhash = txhash
               ELSE /\ wresult.tag = "Ok"
                    /\ wresult.block = latest_block)
    /\ [][wpc = "returned" /\ new_event_nonce # NoNonce =>
            starting_block' = IF cosmos_nonce = last_event_nonce THEN starting_block
                              ELSE latest_block]_vars

\* C3 witness: a transaction was submitted, the nonce did not move
C3_Witness ==
    /\ wpc = "returned"
    /\ Len(sent) = 1
    /\ new_event_nonce = last_event_nonce
    /\ wresult.err = "InvalidBridgeStateError"
    /\ wresult.txhash = "0xB"

\* C4: over chained cycles, a submission never carries an event whose
\* event_nonce is at or below the native chain's last_event_nonce at that
\* moment, although the blocks of such events are scanned again.
C4_NoResubmission ==
    [][Len(sent') > Len(sent) =>
          \A e \in TxEvents(sent'[Len(sent')]) : e.event_nonce > cosmos_nonce]_vars

\* C4 witness: a later cycle scans the block of an applied event again and
\* submits only what follows it
C4_Witness ==
    /\ starting_block = 1
    /\ wpc = "reread_nonce"
    /\ last_event_nonce = 1
    /\ \E k \in ClaimKinds : \E e \in Range(parsed[k]) : e.event_nonce = 1 /\ e.block = 1
    /\ Len(sent) = 1

\* nonce of a typed event: the event_nonce, or for ValsetUpdated the one
\* nonce it carries
NonceOf(e) == IF e.kind = "ValsetUpdated" THEN e.nonce ELSE e.event_nonce

C6_ScanRange ==
    LET upper == head - get_block_delay(net_version)
    IN  /\ AfterQueries =>
              \A k \in EventKinds : queries[k].ok =>
                  Range(queries[k].logs) =
                      {l \in Range(evm_log) \cup Range(valset_log) :
                          l.kind = k /\ starting_block <= l.block /\ l.block <= upper}
        /\ wpc = "returned" /\ wresult.tag = "Ok" => wresult.block = upper
        /\ AfterQueries /\ (\A k \in EventKinds : queries[k].ok /\ queries[k].logs = <<>>) =>
              /\ sent = <<>>
              /\ wpc \notin {"send_ethereum_claims", "reread_nonce"}
              /\ wpc = "returned" =>
                    \/ wresult.tag = "Ok" /\ wresult.block = upper
                    \/ wresult.tag = "Err" /\ last_event_nonce = NoNonce

\* C6 witness: six blocks of delay, an event inside the range and none
\* submitted because nothing was found in a later cycle
C6_Witness ==
    /\ net_version = 1
    /\ head = 7
    /\ starting_block = 1
    /\ wpc = "returned"
    /\ wresult.tag = "Ok"
    /\ wresult.block = 1
    /\ \A k \in EventKinds : queries[k].ok /\ queries[k].logs = <<>>
    /\ evm_log # <<>>

\* C15: a failed attempt of the latest-block read or of the net-version read
\* leaves the invocation in that read with nothing returned; no invocation
\* has returned an error before both reads gave their value; and the invocation
\* leaves the reads for the log queries only with a block number the node
\* reported and the delay of the node's net version, which give the upper end
\* of the range the queries scan.
C15_RetriedReads ==
    /\ [](/\ wpc \in {"idle", "get_block_delay"} => wresult = NoResult
          /\ wresult.tag = "Err" => head # NoBlock /\ latest_block # NoBlock
          /\ retries > 0 => wpc \in {"idle", "get_block_delay"})
    /\ [][/\ retries' > retries =>
                /\ wpc \in {"idle", "get_block_delay"}
                /\ UNCHANGED <<wpc, wresult, head, latest_block, queries, sent>>
          /\ wpc = "idle" /\ wpc' # wpc => wpc' = "get_block_delay" /\ head' \in Heads
          /\ wpc = "get_block_delay" /\ wpc' = "query_logs" =>
                latest_block' = head - get_block_delay(net_version)
          /\ wpc = "query_logs" /\ wpc' # wpc =>
                \A k \in EventKinds :
                    queries'[k].ok =>
                        queries'[k].logs
                            = check_for_events_logs(starting_block,
                                                    head - get_block_delay(net_version), k)]_vars

\* C15 witness: the latest-block read has given its value, an attempt of the
\* net-version read has failed, and the invocation is still in that read
C15_Witness ==
    /\ wpc = "get_block_delay"
    /\ retries > 0
    /\ head = 7
    /\ latest_block = NoBlock
    /\ wresult = NoResult

\* C16: the step in which log decoding, the read of last_event_nonce, the
\* claims submission or the re-read of last_event_nonce fails returns that
\* error, and an error carries no checkpoint; a failure of decoding or of the
\* first read leaves no claims transaction sent; the calling loop keeps
\* starting_block after an error, and every invocation queries from
\* starting_block and filters against the nonce the native chain holds when
\* it is read.
C16_ErrorKeepsCheckpoint ==
    /\ [](wresult.tag = "Err" => wresult.block = NoBlock)
    /\ [][/\ wpc = "from_logs" /\ wpc' \notin {"from_logs", "get_last_event_nonce"} =>
                /\ wpc' = "returned"
                /\ wresult' = Err("InvalidEventLogError")
                /\ sent' = <<>>
          /\ wpc = "get_last_event_nonce" /\ wpc' # wpc /\ last_event_nonce' = NoNonce =>
                /\ wpc' = "returned"
                /\ wresult' = Err("CosmosGrpcError")
                /\ sent' = <<>>
          /\ wpc = "get_last_event_nonce" /\ last_event_nonce' # NoNonce =>
                /\ last_event_nonce' = cosmos_nonce
                /\ claims' = FilteredClaims(cosmos_nonce, parsed)
          /\ wpc = "send_ethereum_claims" /\ wpc' \notin {"send_ethereum_claims", "reread_nonce"} =>
                /\ wpc' = "returned"
                /\ wresult' = Err("CosmosGrpcError")
          /\ wpc = "reread_nonce" /\ wpc' # wpc /\ new_event_nonce' = NoNonce =>
                /\ wpc' = "returned"
                /\ wresult' = Err("CosmosGrpcError")
          /\ wpc = "returned" /\ wpc' # wpc /\ wresult.tag = "Err" =>
                /\ wpc' = "idle"
                /\ starting_block' = starting_block
          /\ wpc = "query_logs" /\ wpc' # wpc =>
                \A k \in EventKinds :
                    queries'[k].ok =>
                        queries'[k].logs
                            = check_for_events_logs(starting_block, latest_block, k)]_vars

\* C16 witness: an earlier invocation moved the checkpoint to block 1; this
\* one found logs from block 1 on, failed to decode them and returned the
\* error with nothing submitted
C16_Witness ==
    /\ starting_block = 1
    /\ wpc = "returned"
    /\ wresult = Err("InvalidEventLogError")
    /\ \E k \in EventKinds : queries[k].ok /\ queries[k].logs # <<>>
    /\ sent = <<>>

\* C18: the block an invocation returns as the next checkpoint is never
\* lower than the starting_block it was given, whatever block number the
\* node reported.
C18_CheckpointMonotone ==
    wresult.tag = "Ok" => wresult.block >= starting_block

\* C19: when an invocation has returned Ok(c), every SendToCosmos,
\* BatchExecuted, ERC20Deployed and LogicCallExecuted event the contract
\* emitted in blocks starting_block..c has an event_nonce at or below the
\* native chain's last_event_nonce, also after the native chain applied only
\* a prefix of the submitted claims.
C19_NoEventSkipped ==
    wpc = "returned" /\ wresult.tag = "Ok" =>
        \A e \in EmittedIn(starting_block, wresult.block) :
            e.kind \in ClaimKinds => e.event_nonce <= cosmos_nonce

\* C20: when cycles keep running, every call succeeds and the native chain
\* applies claims in event_nonce order, the native chain's last_event_nonce
\* eventually reaches the nonce of every event the contract emitted at least
\* block_delay blocks below the head.
C20_WatcherProgress == <>(cosmos_nonce >= Len(evm_log))

\* C23: latest_block - block_delay never underflows: whatever block number
\* the node reports, the invocation does not abort in the subtraction, and
\* the upper end of the scanned range, once computed, is a block height of
\* 0 or more.
C23_NoUnderflow ==
    /\ wpc # "panicked"
    /\ head # NoBlock /\ wpc \notin {"idle", "get_block_delay"} => latest_block >= 0

(***************************************************************************)
(* Properties of get_block_delay.                                          *)
(***************************************************************************)
\* C7: get_block_delay is 6 on net ids 1, 3, 7, is 0 on net ids 4, 5, 6, 15,
\* 2018, and is 6 on every other net id.
C7_BlockDelayTable ==
    ddelay # NoBlock =>
        /\ dnet \in {1, 3, 7} => ddelay = 6
        /\ dnet \in {4, 5, 6, 15, 2018} => ddelay = 0
        /\ dnet \notin {1, 3, 7, 4, 5, 6, 15, 2018} => ddelay = 6

\* C7 witness: the table was consulted for the highest listed net id
C7_Witness == dnet = 2018 /\ ddelay = 0

(***************************************************************************)
(* Properties of send_eth_valset_update.                                   *)
(***************************************************************************)
\* C8: an invocation that has read from the contract a valset nonce other
\* than old_valset.nonce has returned Ok and has broadcast no EVM transaction.
C8_StaleRelayAbort ==
    \A p \in Procs :
        before_nonce[p] # NoNonce /\ before_nonce[p] # vin[p].old_valset.nonce =>
            /\ vpc[p] = "returned"
            /\ vresult[p] = "Ok"
            /\ vtx[p] = <<>>
            /\ txstatus[p] = "none"

\* C8 witness: two instances on the same update; the contract executed the
\* transaction of one, the other read the new nonce and left
C8_Witness ==
    /\ vin[1].old_valset = vin[2].old_valset
    /\ vin[1].new_valset = vin[2].new_valset
    /\ txstatus[1] = "executed"
    /\ before_nonce[2] = vin[2].new_valset.nonce
    /\ vpc[2] = "returned"
    /\ vresult[2] = "Ok"
    /\ vtx[2] = <<>>

\* voting power, in valset, of the members whose confirmation of hash is in
\* confs
PresentPower(valset, hash, confs) ==
    SumPower(valset.members, order_sigs(valset, hash, confs).sigs)

\* C11: every transaction send_eth_valset_update broadcasts carries the
\* signatures over the hash of new_valset ordered against the members of
\* old_valset, with at least the threshold of old_valset's power; and an
\* invocation that reached encode_valset_payload with less power present
\* has returned an error and has broadcast nothing.
C11_NoUnsubmittableBroadcast ==
    \A p \in Procs : vin[p] # NoValsetArgs =>
        LET new_hash == encode_valset_confirm_hashed(vin[p].new_valset)
            power == PresentPower(vin[p].old_valset, new_hash, vin[p].confirms)
        IN  /\ \A i \in 1..Len(vtx[p]) :
                  /\ vtx[p][i].sigs
                        = order_sigs(vin[p].old_valset, new_hash, vin[p].confirms).sigs
                  /\ SumPower(vin[p].old_valset.members, vtx[p][i].sigs) >= PowerThreshold
            /\ (before_nonce[p] = vin[p].old_valset.nonce
                  /\ vpc[p] # "send_transaction"
                  /\ power < PowerThreshold) =>
                  /\ vpc[p] = "returned"
                  /\ vresult[p] = "Err"
                  /\ vtx[p] = <<>>
                  /\ txstatus[p] = "none"

\* C11 witness: the confirmations present would pass against new_valset but
\* not against old_valset; the invocation got past the nonce comparison and
\* returned the error without a transaction
C11_Witness ==
    /\ vin[1] # NoValsetArgs
    /\ before_nonce[1] = vin[1].old_valset.nonce
    /\ PresentPower(vin[1].old_valset, encode_valset_confirm_hashed(vin[1].new_valset),
                    vin[1].confirms) < PowerThreshold
    /\ PresentPower(vin[1].new_valset, encode_valset_confirm_hashed(vin[1].new_valset),
                    vin[1].confirms) >= PowerThreshold
    /\ vpc[1] = "returned"
    /\ vresult[1] = "Err"
    /\ vtx[1] = <<>>

\* C12: an invocation past the receipt wait returns Ok in its next step,
\* whatever the contract's valset nonce is; and no invocation broadcasts more
\* than one transaction.
C12_OkAfterReceipt ==
    [][\A p \in Procs :
          /\ Len(vtx'[p]) <= 1
          /\ vpc[p] = "get_last_nonce" /\ vpc'[p] # vpc[p] =>
                vpc'[p] = "returned" /\ vresult'[p] = "Ok"]_vars

\* C12 as the code has it: an invocation past the receipt wait whose read of
\* the contract's valset nonce succeeds returns Ok, whether or not the nonce
\* read is new_valset.nonce; when that read fails it returns the error; in
\* both cases it has broadcast exactly one transaction and broadcasts no other.
C12_OkAfterNonceRead ==
    /\ [](\A p \in Procs : Len(vtx[p]) <= 1)
    /\ [][\A p \in Procs :
            vpc[p] = "get_last_nonce" /\ vpc'[p] # vpc[p] =>
                /\ vpc'[p] = "returned"
                /\ vresult'[p] = IF last_nonce'[p] # NoNonce THEN "Ok" ELSE "Err"
                /\ vtx'[p] = vtx[p]
                /\ Len(vtx[p]) = 1]_vars

\* C12 witness: the transaction of the invocation was reverted, the nonce
\* read after the receipt is not new_valset.nonce, and the result is Ok
C12_Witness ==
    /\ vpc[2] = "returned"
    /\ txstatus[2] = "reverted"
    /\ last_nonce[2] # NoNonce
    /\ last_nonce[2] # vin[2].new_valset.nonce
    /\ vresult[2] = "Ok"
    /\ Len(vtx[2]) = 1

\* both instances were invoked for the same update
SameUpdate ==
    /\ vin[1] # NoValsetArgs
    /\ vin[2] # NoValsetArgs
    /\ vin[1].old_valset = vin[2].old_valset
    /\ vin[1].new_valset = vin[2].new_valset

\* C13: with two instances invoked for the same old_valset and new_valset,
\* under every interleaving the contract executes at most one of their
\* transactions, its valset nonce never decreases and changes only from
\* old_valset.nonce to new_valset.nonce, and an instance whose transaction
\* was reverted has broadcast exactly that one transaction, broadcasts no
\* other and is returning or has returned.
C13_RaceIsSafe ==
    /\ [](SameUpdate =>
            /\ ~(txstatus[1] = "executed" /\ txstatus[2] = "executed")
            /\ \A p \in Procs :
                  txstatus[p] = "reverted" =>
                      /\ Len(vtx[p]) = 1
                      /\ vpc[p] \in {"wait_for_transaction", "get_last_nonce", "returned"})
    /\ [][/\ eth_valset_nonce' >= eth_valset_nonce
          /\ SameUpdate /\ eth_valset_nonce' # eth_valset_nonce =>
                /\ eth_valset_nonce = vin[1].old_valset.nonce
                /\ eth_valset_nonce' = vin[1].new_valset.nonce
          /\ \A p \in Procs :
                SameUpdate /\ txstatus[p] = "reverted" =>
                    /\ vtx'[p] = vtx[p]
                    /\ vpc'[p] # vpc[p] =>
                          vpc'[p] \in {"get_last_nonce", "returned"}]_vars

\* C13 witness: both instances broadcast for the same update; the contract
\* executed the transaction of one and reverted the other's, whose instance
\* has returned with one transaction sent
C13_Witness ==
    /\ SameUpdate
    /\ txstatus[1] = "executed"
    /\ txstatus[2] = "reverted"
    /\ eth_valset_nonce = vin[1].new_valset.nonce
    /\ vpc[2] = "returned"
    /\ Len(vtx[2]) = 1

\* C14: no invocation of send_eth_valset_update ends in a panic, whatever
\* the nonces of new_valset and old_valset are: an invocation that was given
\* its arguments is running or has returned Ok or Err.
C14_AlwaysReturns ==
    \A p \in Procs :
        /\ vpc[p] # "panicked"
        /\ vpc[p] = "returned" => vresult[p] \in {"Ok", "Err"}

(***************************************************************************)
(* Properties of relay_batches.                                            *)
(***************************************************************************)
\* the loop over latest_batches has ended
LoopDone == bpc # "start" /\ bi > Len(latest_batches) /\ Len(bsigs) = Len(latest_batches)

\* batches of the list whose confirmations were fetched and pass order_sigs
\* against the current valset
SubmittableIndexes ==
    {i \in 1..Len(latest_batches) :
        /\ bsigs[i].ok
        /\ order_sigs(Valset(0), encode_tx_batch_confirm_hashed(latest_batches[i]),
                      bsigs[i].sigs).ok}

\* C9: whatever the order of latest_batches, the batch chosen after the loop
\* is the lowest-nonce submittable batch of its token.
C9_OldestFirst ==
    LoopDone /\ oldest_signed_batch.some =>
        \A i \in SubmittableIndexes :
            latest_batches[i].token_contract = oldest_signed_batch.value.token_contract
                => oldest_signed_batch.value.nonce <= latest_batches[i].nonce

\* calls of the invocation that estimate gas for or broadcast submitBatch
RelayCalls ==
    {i \in 1..Len(bcalls) :
        bcalls[i][1] \in {"estimate_tx_batch_cost", "send_eth_transaction_batch"}}

\* C10: gas is estimated and submitBatch broadcast only for the chosen batch
\* and only after the contract's last executed batch nonce was read for that
\* batch's token in this invocation and the batch's nonce is strictly greater;
\* after a failed read, or with batch.nonce <= that nonce, the invocation
\* has returned without an estimate or a transaction.
C10_OnlyNewerBatch ==
    /\ RelayCalls # {} =>
          /\ oldest_signed_batch.some
          /\ latest_ethereum_batch.some
          /\ latest_ethereum_batch.value.ok
          /\ bcalls[1] = <<"get_tx_batch_nonce", oldest_signed_batch.value.token_contract>>
          /\ oldest_signed_batch.value.nonce > latest_ethereum_batch.value.nonce
          /\ \A i \in RelayCalls : bcalls[i][2] = oldest_signed_batch.value
    /\ latest_ethereum_batch.some =>
          /\ (latest_ethereum_batch.value.ok
                /\ \A i \in RelayCalls : bcalls[i][1] # "send_eth_transaction_batch") =>
                latest_ethereum_batch.value.nonce
                    = eth_batch_nonce[oldest_signed_batch.value.token_contract]
          /\ (~latest_ethereum_batch.value.ok
                \/ oldest_signed_batch.value.nonce <= latest_ethereum_batch.value.nonce) =>
                /\ bpc = "returned"
                /\ RelayCalls = {}

\* C10 witness: the chosen batch has the nonce the contract already executed
C10_Witness ==
    /\ bpc = "returned"
    /\ oldest_signed_batch.some
    /\ latest_ethereum_batch.some
    /\ latest_ethereum_batch.value.ok
    /\ latest_ethereum_batch.value.nonce = 2
    /\ oldest_signed_batch.value.nonce = 2
    /\ bcalls = <<<<"get_tx_batch_nonce", oldest_signed_batch.value.token_contract>>>>

\* the EVM calls of one cycle that goes through to the broadcast
CallOrder == <<"get_tx_batch_nonce", "estimate_tx_batch_cost", "send_eth_transaction_batch">>

\* C17: the EVM calls of a cycle are, in this order, the read of the
\* contract's batch nonce, the gas estimate and the submitBatch broadcast,
\* each at most once; no call is made before the loop over the batches has
\* ended, none after a failed query for the latest batches, and no broadcast
\* after a failed gas estimate, with which the cycle has returned.
C17_CallOrder ==
    /\ Len(bcalls) <= Len(CallOrder)
    /\ \A i \in 1..Len(bcalls) : bcalls[i][1] = CallOrder[i]
    /\ bpc = "start" \/ (bpc = "loop" /\ bi <= Len(latest_batches)) => bcalls = <<>>
    /\ bpc = "returned" /\ bi = 0 => bcalls = <<>>
    /\ Len(bcalls) >= 2 /\ ~bcalls[2][3] => bpc = "returned" /\ Len(bcalls) = 2
    /\ Len(bcalls) = 3 => bpc = "returned"

\* C17 witness: the nonce was read, the gas estimate failed and the cycle
\* returned without a broadcast
C17_Witness ==
    /\ bpc = "returned"
    /\ Len(bcalls) = 2
    /\ bcalls[1][1] = "get_tx_batch_nonce"
    /\ bcalls[2][1] = "estimate_tx_batch_cost"
    /\ ~bcalls[2][3]

\* C21: when cycles keep running, every call succeeds and every cycle's list
\* holds a sufficiently signed batch newer than the contract's last executed
\* batch of its token, relay_batches eventually broadcasts submitBatch,
\* whatever else the list holds.
C21_BatchProgress ==
    <>(\E i \in 1..Len(CallOrder) :
          i <= Len(bcalls) /\ bcalls[i][1] = "send_eth_transaction_batch")

\* batches the loop has looked at so far whose confirmations were fetched
\* and pass order_sigs against the current valset
PassedSoFar ==
    {i \in 1..Len(bsigs) :
        /\ bsigs[i].ok
        /\ order_sigs(current_valset, encode_tx_batch_confirm_hashed(latest_batches[i]),
                      bsigs[i].sigs).ok}

\* C22: the loop fetches the confirmations of every batch of the list, one
\* after the other, also after a fetch has failed; the candidate it holds is
\* a batch whose confirmations were fetched and pass order_sigs, held with
\* those confirmations, and there is a candidate whenever some batch looked
\* at passed; every gas estimate and broadcast is for such a batch.
C22_FailedFetchExcludesOneBatch ==
    /\ bpc = "loop" => Len(bsigs) = bi - 1
    /\ bpc \notin {"start", "loop"} /\ bi > 0 => Len(bsigs) = Len(latest_batches)
    /\ oldest_signed_batch.some <=> PassedSoFar # {}
    /\ oldest_signed_batch.some =>
          /\ oldest_signatures.some
          /\ \E i \in PassedSoFar :
                /\ latest_batches[i] = oldest_signed_batch.value
                /\ bsigs[i].sigs = oldest_signatures.value
    /\ \A c \in RelayCalls :
          \E i \in PassedSoFar : latest_batches[i] = bcalls[c][2]

\* C22 witness: the fetch for the first batch of the list failed, the second
\* batch passed and was broadcast
C22_Witness ==
    /\ Len(latest_batches) = 2
    /\ Len(bsigs) = 2
    /\ ~bsigs[1].ok
    /\ PassedSoFar = {2}
    /\ Len(bcalls) = 3
    /\ bcalls[3] = <<"send_eth_transaction_batch", latest_batches[2]>>

====
